---- MODULE Spec2Model ----
\* Command layer of the mesh network simulator (src/src/cmd.rs): the two command
\* loops (ext_loop on a socket, cmd_loop on stdin), the Mutex<GlobalState> they
\* share, parse_command and cmd_handler.  Graph, the routing algorithms,
\* EvalPaths and DebugPath live in other files of the repository; they are
\* modelled here from the specification, at the level cmd_handler uses them.
EXTENDS Integers, Sequences, FiniteSets, TLC

\* ---------------------------------------------------------------- bounds
MaxNodes == 2       \* largest node_count the topology commands may build
MaxSteps == 2       \* cap on sim_steps and on the movement updates applied
MaxSamples == 1     \* largest sample count given to test
MaxHops == 2        \* cap on the hops recorded by one debug session

VARIABLES
    sim,      \* GlobalState, the value inside Arc<Mutex<GlobalState>>
    lock,     \* holder of the mutex: "none", "ext" or "cmd"
    pc,       \* position of each command loop
    input,    \* each loop's input buffer (a tokenised line)
    script,   \* the script a Run handler is iterating over
    step,     \* loop variable of the running SimStep / DebugStep handler
    out,      \* output buffer of the running command
    res,      \* result returned by the top-level cmd_handler: "Ok" or "Err"
    pending,  \* per loop, the blocking reads that will return with no data
    after_abort   \* history: the loops whose line in hand was read with the
                  \* abort flag already set

vars == <<sim, lock, pc, input, script, step, out, res, pending, after_abort>>

Loops == {"ext", "cmd"}

\* ---------------------------------------------------------------- tokens
\* An input line is a sequence of whitespace-separated tokens.  A token is a
\* word, a numeral or a comma separated list of numerals; what a token parses
\* as is decided by parse_command below.
W(s) == [w |-> s]
N(n) == [n |-> n]
L(ids) == [list |-> ids]

IsWord(t) == "w" \in DOMAIN t
IsNum(t) == "n" \in DOMAIN t
IsList(t) == "list" \in DOMAIN t

Min(S) == CHOOSE x \in S : \A y \in S : x <= y

\* ---------------------------------------------------------------- Graph
\* Node ids are dense, 0 .. node_count-1 (cmd_handler validates an id by
\* id < node_count); links is the set of stored (from, to) entries.
Nodes(g) == 0 .. (g.node_count - 1)

EmptyGraph == [node_count |-> 0, links |-> {}]

graph_clear(g) == EmptyGraph

add_nodes(g, count) == [g EXCEPT !.node_count = @ + count]

\* connect(a, b): an undirected link, stored in both directions; an id that is
\* not in the graph, or a self loop, makes it a no-op.
connect(g, a, b) ==
    IF a \in Nodes(g) /\ b \in Nodes(g) /\ a # b
    THEN [g EXCEPT !.links = @ \cup {<<a, b>>, <<b, a>>}]
    ELSE g

disconnect(g, a, b) == [g EXCEPT !.links = @ \ {<<a, b>>, <<b, a>>}]

RECURSIVE connect_pairs(_, _)
connect_pairs(g, pairs) ==
    IF pairs = {} THEN g
    ELSE LET p == CHOOSE q \in pairs : TRUE
         IN connect_pairs(connect(g, p[1], p[2]), pairs \ {p})

\* connect_nodes / disconnect_nodes over an id list: consecutive ids.
ChainPairs(ids) == {<<ids[i], ids[i + 1]>> : i \in 1 .. (Len(ids) - 1)}

connect_nodes(g, ids) == connect_pairs(g, ChainPairs(ids))

disconnect_nodes(g, ids) ==
    [g EXCEPT !.links = @ \
        UNION {{<<p[1], p[2]>>, <<p[2], p[1]>>} : p \in ChainPairs(ids)}]

\* remove_nodes: the listed ids that exist are removed with every link that
\* touches them; the remaining nodes keep their order and are renumbered.
remove_node_set(g, gone) ==
    LET keep == Nodes(g) \ gone
        rank(i) == Cardinality({j \in keep : j < i})
    IN [node_count |-> Cardinality(keep),
        links |-> {<<rank(l[1]), rank(l[2])>> :
                     l \in {k \in g.links : k[1] \in keep /\ k[2] \in keep}}]

remove_nodes(g, ids) == remove_node_set(g, {ids[i] : i \in 1 .. Len(ids)})

Adj(g, a, b) == <<a, b>> \in g.links \/ <<b, a>> \in g.links

remove_unconnected_nodes(g) ==
    remove_node_set(g, {i \in Nodes(g) : \A j \in Nodes(g) : ~Adj(g, i, j)})

\* minimum_spanning_tree: the forest of the graph, unit weights, lowest id
\* first.  Each component is rooted at its lowest id and every other node is
\* linked to its lowest-id neighbour one hop nearer the root.
RECURSIVE Closure(_, _)
Closure(g, S) ==
    LET T == S \cup {b \in Nodes(g) : \E a \in S : Adj(g, a, b)}
    IN IF T = S THEN S ELSE Closure(g, T)

Root(g, i) == Min(Closure(g, {i}))

RECURSIVE Ball(_, _, _)
Ball(g, r, d) ==
    IF d = 0 THEN {r}
    ELSE LET B == Ball(g, r, d - 1)
         IN B \cup {b \in Nodes(g) : \E a \in B : Adj(g, a, b)}

Depth(g, i) == Min({d \in 0 .. g.node_count : i \in Ball(g, Root(g, i), d)})

Parent(g, i) == Min({j \in Nodes(g) : Adj(g, j, i) /\ Depth(g, j) = Depth(g, i) - 1})

\* The returned graph holds each tree link once, from parent to child: it is
\* "only a uni-directional graph" (cmd.rs, CropMinimumSpanningTree).
minimum_spanning_tree(g) ==
    [node_count |-> g.node_count,
     links |-> {<<Parent(g, i), i>> : i \in {k \in Nodes(g) : Root(g, k) # k}}]

\* GlobalState::add_line / add_star / add_tree / add_lattice4 / add_lattice8:
\* new nodes are appended after the existing ones and linked among themselves.
add_line(g, count, close) ==
    LET off == g.node_count
        g1 == add_nodes(g, count)
        chain == {<<off + i, off + i + 1>> : i \in 0 .. (count - 2)}
        loop == IF close /\ count > 0 THEN {<<off + count - 1, off>>} ELSE {}
    IN connect_pairs(g1, chain \cup loop)

\* star <edge_count>: a centre and edge_count leaves.
add_star(g, count) ==
    LET off == g.node_count
    IN connect_pairs(add_nodes(g, count + 1), {<<off, off + i>> : i \in 1 .. count})

\* tree <node_count> [<inter_count>]: node k > 0 is linked to an earlier node
\* parents[k] (a random draw in the program); inter are the extra links.
add_tree(g, count, parents, inter) ==
    LET off == g.node_count
    IN connect_pairs(add_nodes(g, count),
           {<<off + parents[k], off + k>> : k \in 1 .. (count - 1)}
           \cup {<<off + p[1], off + p[2]>> : p \in inter})

LatticeId(off, y_count, i, j) == off + i * y_count + j

add_lattice4(g, x_count, y_count) ==
    LET off == g.node_count
        cells == (0 .. (x_count - 1)) \X (0 .. (y_count - 1))
    IN connect_pairs(add_nodes(g, x_count * y_count),
           {<<LatticeId(off, y_count, c[1], c[2]), LatticeId(off, y_count, c[1] + 1, c[2])>> :
               c \in {d \in cells : d[1] + 1 < x_count}}
           \cup
           {<<LatticeId(off, y_count, c[1], c[2]), LatticeId(off, y_count, c[1], c[2] + 1)>> :
               c \in {d \in cells : d[2] + 1 < y_count}})

add_lattice8(g, x_count, y_count) ==
    LET off == g.node_count
        cells == (0 .. (x_count - 1)) \X (0 .. (y_count - 1))
    IN connect_pairs(add_lattice4(g, x_count, y_count),
           {<<LatticeId(off, y_count, c[1], c[2]), LatticeId(off, y_count, c[1] + 1, c[2] + 1)>> :
               c \in {d \in cells : d[1] + 1 < x_count /\ d[2] + 1 < y_count}}
           \cup
           {<<LatticeId(off, y_count, c[1] + 1, c[2]), LatticeId(off, y_count, c[1], c[2] + 1)>> :
               c \in {d \in cells : d[1] + 1 < x_count /\ d[2] + 1 < y_count}})

\* ---------------------------------------------------------------- RoutingAlgorithm
\* The per-node state of the active algorithm is kept as its length (size) and
\* the number of maintenance steps applied to it since the last reset.
AlgorithmNames == {"random", "vivaldi", "spring", "genetic", "tree"}

new_algorithm(name) == [name |-> name, size |-> 0, steps |-> 0]

algorithm_reset(a, node_count) == [a EXCEPT !.size = node_count, !.steps = 0]

\* step: one unit of maintenance work; a no-op for RandomRouting.
algorithm_step(a) == IF a.name = "random" THEN a ELSE [a EXCEPT !.steps = @ + 1]

\* get / set: fail with an error for a key the algorithm does not recognise.
RecognisedKeys == {"name"}

algorithm_get(a, key) == IF key \in RecognisedKeys THEN "Ok" ELSE "Err"

algorithm_set(a, key) == IF key \in RecognisedKeys THEN "Ok" ELSE "Err"

\* ---------------------------------------------------------------- EvalPaths
new_test == [samples |-> 0, arrived |-> 0, show_progress |-> FALSE]

test_clear(t) == [t EXCEPT !.samples = 0, !.arrived = 0]

\* run_samples: the accumulators grow by the samples drawn; arrived of them
\* reached their destination.  No pair with source # destination exists in a
\* graph of fewer than two nodes, and nothing is sampled.
run_samples(t, g, samples, arrived) ==
    IF g.node_count < 2 THEN t
    ELSE [t EXCEPT !.samples = @ + samples, !.arrived = @ + arrived]

\* ---------------------------------------------------------------- DebugPath
new_debug_path == [active |-> FALSE, from |-> 0, to |-> 0, hops |-> 0]

debug_path_init(from, to) == [active |-> TRUE, from |-> from, to |-> to, hops |-> 0]

\* step: one single-hop advance of the session (nothing without a session).
debug_path_step(d) == IF d.active THEN [d EXCEPT !.hops = @ + 1] ELSE d

\* ---------------------------------------------------------------- GlobalState
new_sim ==
    [graph |-> EmptyGraph,
     algorithm |-> new_algorithm("random"),
     test |-> new_test,
     debug_path |-> new_debug_path,
     locations |-> [moves |-> 0],
     sim_steps |-> 0,
     abort_simulation |-> FALSE,
     show_progress |-> FALSE,
     export_path |-> "default"]

\* movements.step(&mut sim.locations)
movements_step(loc) == [loc EXCEPT !.moves = @ + 1]

\* ---------------------------------------------------------------- parse_command
H(s) == [w |-> s, hash |-> TRUE]       \* a word that starts with '#'

StartsWithHash(t) == "hash" \in DOMAIN t

Cmd(cid, a, b) == [cid |-> cid, a |-> a, b |-> b]

DefaultSamples == 1000

\* lookup_cmd: the Cid of the help line whose first token is cmd.
lookup_cmd(t) ==
    IF ~IsWord(t) THEN "Error"
    ELSE CASE t.w = "algo" -> "Algorithm"
           [] t.w = "sim_step" -> "SimStep"
           [] t.w = "sim_reset" -> "ResetSim"
           [] t.w = "progress" -> "Progress"
           [] t.w = "test" -> "Test"
           [] t.w = "debug_init" -> "Debug"
           [] t.w = "debug_step" -> "DebugStep"
           [] t.w = "get" -> "Get"
           [] t.w = "set" -> "Set"
           [] t.w = "graph_clear" -> "ClearGraph"
           [] t.w = "line" -> "AddLine"
           [] t.w = "star" -> "AddStar"
           [] t.w = "tree" -> "AddTree"
           [] t.w = "lattice4" -> "AddLattice4"
           [] t.w = "lattice8" -> "AddLattice8"
           [] t.w = "remove_nodes" -> "RemoveNodes"
           [] t.w = "connect_nodes" -> "ConnectNodes"
           [] t.w = "disconnect_nodes" -> "DisconnectNodes"
           [] t.w = "remove_unconnected" -> "RemoveUnconnected"
           [] t.w = "run" -> "Run"
           [] t.w = "import" -> "Import"
           [] t.w = "export" -> "ExportPath"
           [] t.w = "crop_mst" -> "CropMinimumSpanningTree"
           [] t.w = "exit" -> "Exit"
           [] OTHER -> "Error"

\* scan!: the i-th token parsed as the given type, if there is one and it parses.
HasU32(tokens, i) == Len(tokens) >= i /\ IsNum(tokens[i])
HasBool(tokens, i) == Len(tokens) >= i /\ IsWord(tokens[i]) /\ tokens[i].w \in {"true", "false"}
HasString(tokens, i) == Len(tokens) >= i
BoolOf(t) == t.w = "true"
StringOf(t) == IF IsWord(t) THEN t.w ELSE "0"

\* parse_list: Ok for a comma separated list of numerals, Err otherwise (also
\* for a missing token).
parse_list_ok(tokens) == Len(tokens) >= 2 /\ (IsNum(tokens[2]) \/ IsList(tokens[2]))
parse_list(tokens) == IF IsNum(tokens[2]) THEN <<tokens[2].n>> ELSE tokens[2].list

MissingArguments == Cmd("Error", "Missing Arguments", 0)

parse_command(tokens) ==
    LET cid == IF tokens = <<>> THEN "Error" ELSE lookup_cmd(tokens[1])
    IN CASE cid \in {"ClearGraph", "ResetSim", "Exit", "CropMinimumSpanningTree",
                     "RemoveUnconnected"} -> Cmd(cid, 0, 0)
         [] cid = "Progress" ->
              IF HasBool(tokens, 2) THEN Cmd(cid, <<BoolOf(tokens[2])>>, 0)
              ELSE Cmd(cid, <<>>, 0)
         [] cid = "Test" ->
              IF HasU32(tokens, 2) THEN Cmd(cid, tokens[2].n, 0)
              ELSE Cmd(cid, DefaultSamples, 0)
         [] cid \in {"Debug", "AddLattice4", "AddLattice8"} ->
              IF HasU32(tokens, 2) /\ HasU32(tokens, 3)
              THEN Cmd(cid, tokens[2].n, tokens[3].n)
              ELSE MissingArguments
         [] cid \in {"DebugStep", "SimStep"} ->
              IF HasU32(tokens, 2) THEN Cmd(cid, tokens[2].n, 0) ELSE Cmd(cid, 1, 0)
         [] cid \in {"Get", "Run", "Import"} ->
              IF HasString(tokens, 2) THEN Cmd(cid, StringOf(tokens[2]), 0)
              ELSE MissingArguments
         [] cid = "Set" ->
              IF HasString(tokens, 2) /\ HasString(tokens, 3)
              THEN Cmd(cid, StringOf(tokens[2]), StringOf(tokens[3]))
              ELSE MissingArguments
         [] cid = "ExportPath" ->
              IF HasString(tokens, 2) THEN Cmd(cid, <<StringOf(tokens[2])>>, 0)
              ELSE Cmd(cid, <<>>, 0)
         [] cid = "AddLine" ->
              IF HasU32(tokens, 2) /\ HasBool(tokens, 3)
              THEN Cmd(cid, tokens[2].n, BoolOf(tokens[3]))
              ELSE IF HasU32(tokens, 2) THEN Cmd(cid, tokens[2].n, FALSE)
              ELSE MissingArguments
         [] cid = "AddTree" ->
              IF HasU32(tokens, 2) /\ HasU32(tokens, 3)
              THEN Cmd(cid, tokens[2].n, tokens[3].n)
              ELSE IF HasU32(tokens, 2) THEN Cmd(cid, tokens[2].n, 0)
              ELSE MissingArguments
         [] cid = "AddStar" ->
              IF HasU32(tokens, 2) THEN Cmd(cid, tokens[2].n, 0) ELSE MissingArguments
         [] cid = "Algorithm" ->
              IF HasString(tokens, 2) THEN Cmd(cid, <<StringOf(tokens[2])>>, 0)
              ELSE Cmd(cid, <<>>, 0)
         [] cid \in {"RemoveNodes", "ConnectNodes", "DisconnectNodes"} ->
              IF parse_list_ok(tokens) THEN Cmd(cid, parse_list(tokens), 0)
              ELSE MissingArguments
         [] OTHER ->
              IF tokens = <<>> THEN Cmd("Ignore", 0, 0)
              ELSE IF StartsWithHash(tokens[1]) THEN Cmd("Ignore", 0, 0)
              ELSE Cmd("Error", "Unknown Command", 0)

\* ---------------------------------------------------------------- scripts
\* The files a run command can open (File::open fails for any other path).
Files ==
    [a |-> << <<W("get"), W("nosuchkey")>>, <<W("sim_step"), N(1)>> >>,
     b |-> << <<W("frobnicate")>>, <<W("run"), W("b")>>, <<W("sim_step"), N(1)>> >>,
     c |-> << <<W("set"), W("nosuchkey"), W("1")>> >>,
     d |-> << <<W("exit")>>, <<W("sim_step"), N(1)>> >>,
     e |-> << <<W("frobnicate")>>, <<W("get")>>, <<W("get"), W("nosuchkey")>>,
              <<W("algo"), W("vivaldi")>> >>]

NoScript == [active |-> FALSE, path |-> "", lines |-> <<>>, index |-> 0]

Msg(text) == [msg |-> text]

\* ---------------------------------------------------------------- the loops
Init ==
    /\ sim = new_sim
    /\ lock = "none"
    /\ pc = [l \in Loops |-> "read"]
    /\ input = [l \in Loops |-> <<>>]
    /\ script = NoScript
    /\ step = 0
    /\ out = <<>>
    /\ res = "Ok"
    /\ pending = [l \in Loops |-> 0]
    /\ after_abort = {}

\* stream.read / stdin.read_line returns a line.
Receive(l, tokens) ==
    /\ pc[l] = "read"
    /\ pc' = [pc EXCEPT ![l] = "lock"]
    /\ input' = [input EXCEPT ![l] = tokens]
    /\ after_abort' = IF sim.abort_simulation THEN after_abort \cup {l} ELSE after_abort
    /\ UNCHANGED <<sim, lock, script, step, out, res, pending>>

\* send_dummy_to_socket: a connection to the listener that carries no bytes and
\* is closed at once; it waits in the backlog until ext_loop accepts it.  With
\* the listener gone the connect fails and is only reported.
send_dummy_to_socket(p) ==
    IF pc["ext"] = "done" THEN p ELSE [p EXCEPT !["ext"] = @ + 1]

\* send_dummy_to_stdin: writes zero bytes to stdout; nothing reaches stdin.
send_dummy_to_stdin(p) == p

\* A blocking read returns with no data: ext_loop accepts a dummy connection
\* and reads 0 bytes from it, cmd_loop's read_line returns an empty line.
ReceiveDummy(l) ==
    /\ pc[l] = "read"
    /\ pending[l] > 0
    /\ pending' = [pending EXCEPT ![l] = @ - 1]
    /\ pc' = [pc EXCEPT ![l] = "lock"]
    /\ input' = [input EXCEPT ![l] = <<>>]
    /\ after_abort' = IF sim.abort_simulation THEN after_abort \cup {l} ELSE after_abort
    /\ UNCHANGED <<sim, lock, script, step, out, res>>

\* mutant: the guard is handed out whoever holds it
lock_free_unguarded(l) == TRUE

\* sim.lock() succeeds only while no loop holds the guard.
lock_free(l) == lock = "none"

\* ext_loop: the abort flag is tested under the lock, before cmd_handler.
ExtAbort(l) ==
    /\ l = "ext"
    /\ pc[l] = "lock"
    /\ lock_free(l)
    /\ sim.abort_simulation
    /\ pc' = [pc EXCEPT ![l] = "done"]
    /\ UNCHANGED <<sim, lock, input, script, step, out, res, pending, after_abort>>

\* The loop writes the result, cmd_loop tests the abort flag, the guard is
\* dropped and the input buffer cleared.
Write(l) ==
    /\ pc[l] = "write"
    /\ lock = l
    /\ lock' = "none"
    /\ out' = <<>>
    /\ res' = "Ok"
    /\ input' = [input EXCEPT ![l] = <<>>]
    /\ pc' = [pc EXCEPT ![l] = IF l = "cmd" /\ sim.abort_simulation THEN "done" ELSE "read"]
    /\ UNCHANGED <<sim, script, step, pending, after_abort>>

\* ---------------------------------------------------------------- cmd_handler
\* A handler starts either as a loop's call (the loop takes the lock) or as
\* the next line of the script that the Run handler of that loop iterates.
AtCall(l) ==
    /\ pc[l] = "lock"
    /\ lock_free(l)
    /\ (l = "ext" => ~sim.abort_simulation)

AtLine(l) == pc[l] = "Run" /\ lock = l /\ script.lines # <<>>

\* the line cmd_handler is (or is about to be) working on
Line(l) == IF script.active /\ lock = l THEN Head(script.lines) ELSE input[l]

Command(l) == parse_command(Line(l))

\* mutant: a script's lines are handled with AllowRecursiveCall::Yes
AllowRecursiveCall_yes(l) == "Yes"

\* cmd_handler's call argument: Yes from a loop, No for the lines of a script
AllowRecursiveCall(l) == IF script.active /\ lock = l THEN "No" ELSE "Yes"

Is(l, cid) == (AtCall(l) \/ AtLine(l)) /\ Command(l).cid = cid

\* mutant: the Run handler does not leave its loop on a failing line
Return_no_break(l, s, r, o) ==
    IF script.active
    THEN IF r = "Ok"
         THEN /\ sim' = s
              /\ out' = out \o o
              /\ script' = [script EXCEPT !.lines = Tail(@), !.index = @ + 1]
              /\ pc' = [pc EXCEPT ![l] = "Run"]
              /\ UNCHANGED <<lock, res>>
         ELSE /\ sim' = [s EXCEPT !.abort_simulation = TRUE]
              /\ out' = (out \o o) \o
                        <<[msg |-> "Error in", path |-> script.path, index |-> script.index]>>
              /\ script' = [script EXCEPT !.lines = Tail(@), !.index = @ + 1]
              /\ pc' = [pc EXCEPT ![l] = "Run"]
              /\ UNCHANGED <<lock, res>>
    ELSE /\ sim' = s
         /\ out' = out \o o
         /\ res' = r
         /\ pc' = [pc EXCEPT ![l] = "write"]
         /\ lock' = l
         /\ UNCHANGED script

\* cmd_handler returns r with state s, having appended o to the output.  At
\* the top level the loop goes on to write the result.  Inside a script the
\* Run handler takes the next line, or on Err reports it, sets the abort flag,
\* leaves its loop and returns Ok itself.
Return(l, s, r, o) ==
    IF script.active
    THEN IF r = "Ok"
         THEN /\ sim' = s
              /\ out' = out \o o
              /\ script' = [script EXCEPT !.lines = Tail(@), !.index = @ + 1]
              /\ pc' = [pc EXCEPT ![l] = "Run"]
              /\ UNCHANGED <<lock, res>>
         ELSE /\ sim' = [s EXCEPT !.abort_simulation = TRUE]
              /\ out' = (out \o o) \o
                        <<[msg |-> "Error in", path |-> script.path, index |-> script.index]>>
              /\ script' = NoScript
              /\ pc' = [pc EXCEPT ![l] = "write"]
              /\ res' = "Ok"
              /\ UNCHANGED lock
    ELSE /\ sim' = s
         /\ out' = out \o o
         /\ res' = r
         /\ pc' = [pc EXCEPT ![l] = "write"]
         /\ lock' = l
         /\ UNCHANGED script

\* if do_init { algorithm.reset(graph.node_count()); test.clear(); }
do_init_reset(s) ==
    [s EXCEPT !.algorithm = algorithm_reset(@, s.graph.node_count),
              !.test = test_clear(@)]

\* The end of cmd_handler: the do_init block, export_file, Ok(()).
Finish(l, s, do_init, o) ==
    Return(l, IF do_init THEN do_init_reset(s) ELSE s, "Ok", o)

CmdIgnore(l) ==
    /\ Is(l, "Ignore")
    /\ Finish(l, sim, FALSE, <<>>)
    /\ UNCHANGED <<input, step, pending, after_abort>>

\* mutant: Command::Error is returned as an error
CmdError_returns_err(l) ==
    /\ Is(l, "Error")
    /\ Return(l, sim, "Err", <<Msg(Command(l).a)>>)
    /\ UNCHANGED <<input, step, pending, after_abort>>

CmdError(l) ==
    /\ Is(l, "Error")
    /\ Finish(l, sim, FALSE, <<Msg(Command(l).a)>>)
    /\ UNCHANGED <<input, step, pending, after_abort>>

CmdProgress(l) ==
    /\ Is(l, "Progress")
    /\ LET show == Command(l).a
           s == IF show # <<>> THEN [sim EXCEPT !.show_progress = show[1]] ELSE sim
       IN Finish(l, s, FALSE, <<[msg |-> "show progress", enabled |-> s.show_progress]>>)
    /\ UNCHANGED <<input, step, pending, after_abort>>

CmdExit(l) ==
    /\ Is(l, "Exit")
    /\ Finish(l, [sim EXCEPT !.abort_simulation = TRUE], FALSE, <<>>)
    /\ pending' = send_dummy_to_stdin(send_dummy_to_socket(pending))
    /\ UNCHANGED <<input, step, after_abort>>

CmdCropMinimumSpanningTree(l) ==
    /\ Is(l, "CropMinimumSpanningTree")
    /\ LET mst == minimum_spanning_tree(sim.graph)
       IN Finish(l, IF mst.node_count > 0 THEN [sim EXCEPT !.graph = mst] ELSE sim,
                 FALSE, <<>>)
    /\ UNCHANGED <<input, step, pending, after_abort>>

CmdGet(l) ==
    /\ Is(l, "Get")
    /\ IF algorithm_get(sim.algorithm, Command(l).a) = "Ok"
       THEN Finish(l, sim, FALSE, <<[msg |-> "value", key |-> Command(l).a]>>)
       ELSE Return(l, sim, "Err", <<>>)
    /\ UNCHANGED <<input, step, pending, after_abort>>

CmdSet(l) ==
    /\ Is(l, "Set")
    /\ IF algorithm_set(sim.algorithm, Command(l).a) = "Ok"
       THEN Finish(l, sim, FALSE, <<>>)
       ELSE Return(l, sim, "Err", <<>>)
    /\ UNCHANGED <<input, step, pending, after_abort>>

CmdClearGraph(l) ==
    /\ Is(l, "ClearGraph")
    /\ Finish(l, [sim EXCEPT !.graph = graph_clear(@)], TRUE, <<Msg("done")>>)
    /\ UNCHANGED <<input, step, pending, after_abort>>

\* mutant: the ResetSim handler does not set do_init
CmdResetSim_no_init(l) ==
    /\ Is(l, "ResetSim")
    /\ Finish(l, [sim EXCEPT !.test = test_clear(@), !.sim_steps = 0], FALSE, <<Msg("done")>>)
    /\ UNCHANGED <<input, step, pending, after_abort>>

CmdResetSim(l) ==
    /\ Is(l, "ResetSim")
    /\ Finish(l, [sim EXCEPT !.test = test_clear(@), !.sim_steps = 0], TRUE, <<Msg("done")>>)
    /\ UNCHANGED <<input, step, pending, after_abort>>

\* SimStep: for step in 0..count { if abort {break}; algorithm.step;
\* movements.step; sim_steps += 1 }.  The loop is split at its statements.
SimStepBegin(l) ==
    /\ Is(l, "SimStep")
    /\ pc' = [pc EXCEPT ![l] = "SimStep"]
    /\ lock' = l
    /\ step' = 0
    /\ UNCHANGED <<sim, input, script, out, res, pending, after_abort>>

\* the abort flag as the SimStep loop reads it at the top of an iteration
abort_seen(l) == sim.abort_simulation

\* mutant: the loop runs over 0..=count
SimStepAlgorithm_inclusive(l) ==
    /\ pc[l] = "SimStep"
    /\ step <= Command(l).a
    /\ ~abort_seen(l)
    /\ sim' = [sim EXCEPT !.algorithm = algorithm_step(@)]
    /\ pc' = [pc EXCEPT ![l] = "SimStep.movements"]
    /\ UNCHANGED <<lock, input, script, step, out, res, pending, after_abort>>

SimStepAlgorithm(l) ==
    /\ pc[l] = "SimStep"
    /\ step < Command(l).a
    /\ ~abort_seen(l)
    /\ sim' = [sim EXCEPT !.algorithm = algorithm_step(@)]
    /\ pc' = [pc EXCEPT ![l] = "SimStep.movements"]
    /\ UNCHANGED <<lock, input, script, step, out, res, pending, after_abort>>

SimStepMovements(l) ==
    /\ pc[l] = "SimStep.movements"
    /\ sim' = [sim EXCEPT !.locations = movements_step(@)]
    /\ pc' = [pc EXCEPT ![l] = "SimStep.count"]
    /\ UNCHANGED <<lock, input, script, step, out, res, pending, after_abort>>

SimStepCount(l) ==
    /\ pc[l] = "SimStep.count"
    /\ sim' = [sim EXCEPT !.sim_steps = @ + 1]
    /\ step' = step + 1
    /\ pc' = [pc EXCEPT ![l] = "SimStep"]
    /\ UNCHANGED <<lock, input, script, out, res, pending, after_abort>>

SimStepEnd(l) ==
    /\ pc[l] = "SimStep"
    /\ (step >= Command(l).a \/ abort_seen(l))
    /\ Finish(l, sim, FALSE, <<[msg |-> "Run simulation steps", count |-> Command(l).a]>>)
    /\ step' = 0
    /\ UNCHANGED <<input, pending, after_abort>>

\* mutant: the accumulators are not cleared before the run
run_test_no_clear(test, graph, samples, arrived) ==
    run_samples(test, graph, samples, arrived)

\* run_test: test.clear(); test.run_samples(graph, |p| algo.route(&p), samples);
\* the printed line carries the requested sample count and test.arrived().
run_test(test, graph, samples, arrived) ==
    run_samples(test_clear(test), graph, samples, arrived)

\* mutant: the Test handler sets do_init
CmdTest_do_init(l) ==
    /\ Is(l, "Test")
    /\ \E arrived \in 0 .. (IF sim.graph.node_count < 2 THEN 0 ELSE Command(l).a) :
         LET shown == [sim.test EXCEPT !.show_progress = sim.show_progress]
             t == run_test(shown, sim.graph, Command(l).a, arrived)
         IN Finish(l, [sim EXCEPT !.test = t], TRUE,
                   <<[msg |-> "samples", samples |-> Command(l).a, arrived |-> t.arrived]>>)
    /\ UNCHANGED <<input, step, pending, after_abort>>

CmdTest(l) ==
    /\ Is(l, "Test")
    /\ \E arrived \in 0 .. (IF sim.graph.node_count < 2 THEN 0 ELSE Command(l).a) :
         LET shown == [sim.test EXCEPT !.show_progress = sim.show_progress]
             t == run_test(shown, sim.graph, Command(l).a, arrived)
         IN Finish(l, [sim EXCEPT !.test = t], FALSE,
                   <<[msg |-> "samples", samples |-> Command(l).a, arrived |-> t.arrived]>>)
    /\ UNCHANGED <<input, step, pending, after_abort>>

\* Debug: if (from < node_count) && (from < node_count) { debug_path.init }
debug_endpoints_ok(from, to, node_count) == (from < node_count) /\ (from < node_count)

CmdDebug(l) ==
    /\ Is(l, "Debug")
    /\ LET from == Command(l).a
           to == Command(l).b
       IN IF debug_endpoints_ok(from, to, sim.graph.node_count)
          THEN Finish(l, [sim EXCEPT !.debug_path = debug_path_init(from, to)], FALSE,
                      <<[msg |-> "Init path debugger", from |-> from, to |-> to]>>)
          ELSE Finish(l, sim, FALSE, <<[msg |-> "Invalid path", from |-> from, to |-> to]>>)
    /\ UNCHANGED <<input, step, pending, after_abort>>

\* mutant: the loop runs over 0..=steps
RECURSIVE debug_steps_inclusive(_, _)
debug_steps_inclusive(d, hops) ==
    IF hops = 0 THEN debug_path_step(d)
    ELSE debug_steps_inclusive(debug_path_step(d), hops - 1)

\* DebugStep: for _ in 0..steps { debug_path.step(..)? }: hops of the steps
\* succeed; a failing hop returns its error at once.
RECURSIVE debug_steps(_, _)
debug_steps(d, hops) == IF hops = 0 THEN d ELSE debug_steps(debug_path_step(d), hops - 1)

CmdDebugStep(l) ==
    /\ Is(l, "DebugStep")
    /\ \E hops \in 0 .. Command(l).a :
         LET s == [sim EXCEPT !.debug_path = debug_steps(@, hops)]
         IN IF hops = Command(l).a
            THEN Finish(l, s, FALSE, <<[msg |-> "hops", hops |-> hops]>>)
            ELSE Return(l, s, "Err", <<[msg |-> "hops", hops |-> hops]>>)
    /\ UNCHANGED <<input, step, pending, after_abort>>

\* Import: import_file(..)? replaces the graph, or fails and returns the error.
ImportGraphs == {add_line(EmptyGraph, n, FALSE) : n \in 1 .. MaxNodes}

CmdImport(l) ==
    /\ Is(l, "Import")
    /\ \/ \E g \in ImportGraphs :
            Finish(l, [sim EXCEPT !.graph = g], TRUE, <<Msg("Import done")>>)
       \/ Return(l, sim, "Err", <<>>)
    /\ UNCHANGED <<input, step, pending, after_abort>>

CmdExportPath(l) ==
    /\ Is(l, "ExportPath")
    /\ LET path == Command(l).a
           s == IF path # <<>> THEN [sim EXCEPT !.export_path = path[1]] ELSE sim
       IN Finish(l, s, FALSE, <<[msg |-> "Export done", path |-> s.export_path]>>)
    /\ UNCHANGED <<input, step, pending, after_abort>>

CmdAddLine(l) ==
    /\ Is(l, "AddLine")
    /\ Finish(l, [sim EXCEPT !.graph = add_line(@, Command(l).a, Command(l).b)], TRUE, <<>>)
    /\ UNCHANGED <<input, step, pending, after_abort>>

CmdAddTree(l) ==
    /\ Is(l, "AddTree")
    /\ LET count == Command(l).a
           pairs == {p \in (0 .. (count - 1)) \X (0 .. (count - 1)) : p[1] < p[2]}
       IN \E parents \in {f \in [1 .. (count - 1) -> 0 .. (count - 1)] :
                             \A k \in 1 .. (count - 1) : f[k] < k} :
          \E inter \in {x \in SUBSET pairs : Cardinality(x) <= Command(l).b} :
             Finish(l, [sim EXCEPT !.graph = add_tree(@, count, parents, inter)], TRUE, <<>>)
    /\ UNCHANGED <<input, step, pending, after_abort>>

CmdAddStar(l) ==
    /\ Is(l, "AddStar")
    /\ Finish(l, [sim EXCEPT !.graph = add_star(@, Command(l).a)], TRUE, <<>>)
    /\ UNCHANGED <<input, step, pending, after_abort>>

CmdAddLattice4(l) ==
    /\ Is(l, "AddLattice4")
    /\ Finish(l, [sim EXCEPT !.graph = add_lattice4(@, Command(l).a, Command(l).b)], TRUE, <<>>)
    /\ UNCHANGED <<input, step, pending, after_abort>>

CmdAddLattice8(l) ==
    /\ Is(l, "AddLattice8")
    /\ Finish(l, [sim EXCEPT !.graph = add_lattice8(@, Command(l).a, Command(l).b)], TRUE, <<>>)
    /\ UNCHANGED <<input, step, pending, after_abort>>

\* mutant: do_init is set whatever the name
CmdAlgorithm_always_init(l) ==
    /\ Is(l, "Algorithm")
    /\ LET algo == Command(l).a
       IN IF algo = <<>>
          THEN Finish(l, sim, FALSE, <<[msg |-> "selected", name |-> sim.algorithm.name]>>)
          ELSE IF algo[1] \in AlgorithmNames
          THEN Finish(l, [sim EXCEPT !.algorithm = new_algorithm(algo[1])], TRUE, <<Msg("Done")>>)
          ELSE Finish(l, sim, TRUE, <<[msg |-> "Unknown algorithm", name |-> algo[1]]>>)
    /\ UNCHANGED <<input, step, pending, after_abort>>

\* Algorithm(Some(name)): a known name installs a fresh instance and sets
\* do_init; any other name is only reported.  Algorithm(None) lists the names.
CmdAlgorithm(l) ==
    /\ Is(l, "Algorithm")
    /\ LET algo == Command(l).a
       IN IF algo = <<>>
          THEN Finish(l, sim, FALSE, <<[msg |-> "selected", name |-> sim.algorithm.name]>>)
          ELSE IF algo[1] \in AlgorithmNames
          THEN Finish(l, [sim EXCEPT !.algorithm = new_algorithm(algo[1])], TRUE, <<Msg("Done")>>)
          ELSE Finish(l, sim, FALSE, <<[msg |-> "Unknown algorithm", name |-> algo[1]]>>)
    /\ UNCHANGED <<input, step, pending, after_abort>>

\* Run: only a loop's own call may open a script; as a line of a script it is
\* refused.  The lines are handled one by one by cmd_handler itself.
RunBegin(l) ==
    /\ Is(l, "Run")
    /\ AllowRecursiveCall(l) = "Yes"
    /\ Command(l).a \in DOMAIN Files
    /\ script' = [active |-> TRUE, path |-> Command(l).a,
                  lines |-> Files[Command(l).a], index |-> 0]
    /\ pc' = [pc EXCEPT ![l] = "Run"]
    /\ lock' = l
    /\ UNCHANGED <<sim, input, step, out, res, pending, after_abort>>

RunNotFound(l) ==
    /\ Is(l, "Run")
    /\ AllowRecursiveCall(l) = "Yes"
    /\ Command(l).a \notin DOMAIN Files
    /\ Finish(l, sim, FALSE, <<[msg |-> "File not found", path |-> Command(l).a]>>)
    /\ UNCHANGED <<input, step, pending, after_abort>>

RunRecursive(l) ==
    /\ Is(l, "Run")
    /\ AllowRecursiveCall(l) = "No"
    /\ Finish(l, sim, FALSE, <<[msg |-> "Recursive call not allowed", path |-> Command(l).a]>>)
    /\ UNCHANGED <<input, step, pending, after_abort>>

\* the script is exhausted: the Run handler itself finishes
RunEnd(l) ==
    /\ pc[l] = "Run"
    /\ lock = l
    /\ script.lines = <<>>
    /\ sim' = sim
    /\ script' = NoScript
    /\ pc' = [pc EXCEPT ![l] = "write"]
    /\ res' = "Ok"
    /\ UNCHANGED <<lock, input, step, out, pending, after_abort>>

CmdRemoveUnconnected(l) ==
    /\ Is(l, "RemoveUnconnected")
    /\ Finish(l, [sim EXCEPT !.graph = remove_unconnected_nodes(@)], TRUE, <<>>)
    /\ UNCHANGED <<input, step, pending, after_abort>>

CmdRemoveNodes(l) ==
    /\ Is(l, "RemoveNodes")
    /\ Finish(l, [sim EXCEPT !.graph = remove_nodes(@, Command(l).a)], FALSE, <<>>)
    /\ UNCHANGED <<input, step, pending, after_abort>>

CmdConnectNodes(l) ==
    /\ Is(l, "ConnectNodes")
    /\ Finish(l, [sim EXCEPT !.graph = connect_nodes(@, Command(l).a)], FALSE, <<>>)
    /\ UNCHANGED <<input, step, pending, after_abort>>

CmdDisconnectNodes(l) ==
    /\ Is(l, "DisconnectNodes")
    /\ Finish(l, [sim EXCEPT !.graph = disconnect_nodes(@, Command(l).a)], FALSE, <<>>)
    /\ UNCHANGED <<input, step, pending, after_abort>>

\* ---------------------------------------------------------------- inputs
Counts == 1 .. MaxNodes
Ids == 0 .. (MaxNodes - 1)

TopologyInputs ==
    {<<W("line"), N(n)>> : n \in Counts}
    \cup {<<W("line"), N(MaxNodes), W("true")>>}
    \cup {<<W("star"), N(n)>> : n \in 1 .. (MaxNodes - 1)}
    \cup {<<W("tree"), N(n)>> : n \in Counts}
    \cup {<<W("tree"), N(MaxNodes), N(1)>>}
    \cup {<<W("lattice4"), N(1), N(n)>> : n \in Counts}
    \cup {<<W("lattice8"), N(n), N(1)>> : n \in Counts}
    \cup {<<W("graph_clear")>>, <<W("remove_unconnected")>>, <<W("crop_mst")>>,
          <<W("import"), W("graph.json")>>}
    \cup {<<W("remove_nodes"), N(i)>> : i \in Ids}
    \cup {<<W("connect_nodes"), L(<<0, i>>)>> : i \in Ids}
    \cup {<<W("disconnect_nodes"), L(<<0, i>>)>> : i \in Ids}

UseInputs ==
    {<<W("sim_step")>>, <<W("test"), N(MaxSamples)>>, <<W("debug_step")>>,
     <<W("debug_init"), N(0), N(1)>>, <<W("algo"), W("vivaldi")>>}

\* ---------------------------------------------------------------- specifications
\* no loop has a command in hand
Quiet == \A k \in Loops : pc[k] \in {"read", "done"}

\* the sim_step commands among the lines of a script
StepLines(path) ==
    IF path \in DOMAIN Files
    THEN Cardinality({i \in 1 .. Len(Files[path]) : parse_command(Files[path][i]).cid = "SimStep"})
    ELSE 0

\* The counters of the model stay within the bounds: a line is only sent while
\* the command it holds has room to run.
Admissible(tokens) ==
    LET c == parse_command(tokens)
        room(n) == sim.sim_steps + n <= MaxSteps /\ sim.locations.moves + n <= MaxSteps
    IN CASE c.cid = "SimStep" -> room(c.a)
         [] c.cid = "Run" -> room(StepLines(c.a))
         [] c.cid = "DebugStep" -> sim.debug_path.hops + c.a <= MaxHops
         [] c.cid \in {"AddLine", "AddTree"} -> sim.graph.node_count + c.a <= MaxNodes
         [] c.cid = "AddStar" -> sim.graph.node_count + c.a + 1 <= MaxNodes
         [] c.cid \in {"AddLattice4", "AddLattice8"} ->
              sim.graph.node_count + c.a * c.b <= MaxNodes
         [] OTHER -> TRUE

Send(l, tokens) == Admissible(tokens) /\ Receive(l, tokens)

\* Spec: topology edits and the commands that use the algorithm, the commands
\* arriving one at a time on either loop.
Next ==
    \E l \in Loops :
       \/ Quiet /\ \E t \in TopologyInputs \cup UseInputs : Send(l, t)
       \/ Write(l)
       \/ CmdAddLine(l)
       \/ CmdAddStar(l)
       \/ CmdAddTree(l)
       \/ CmdAddLattice4(l)
       \/ CmdAddLattice8(l)
       \/ CmdClearGraph(l)
       \/ CmdImport(l)
       \/ CmdRemoveUnconnected(l)
       \/ CmdRemoveNodes(l)
       \/ CmdConnectNodes(l)
       \/ CmdDisconnectNodes(l)
       \/ CmdCropMinimumSpanningTree(l)
       \/ CmdAlgorithm(l)
       \/ SimStepBegin(l)
       \/ SimStepAlgorithm(l)
       \/ SimStepMovements(l)
       \/ SimStepCount(l)
       \/ SimStepEnd(l)
       \/ CmdTest(l)
       \/ CmdDebug(l)
       \/ CmdDebugStep(l)

Spec == Init /\ [][Next]_vars

\* SpecEval: evaluation, tracing and algorithm selection on line graphs, the
\* commands arriving one at a time on either loop.
EvalInputs ==
    {<<W("line"), N(n)>> : n \in Counts}
    \cup {<<W("remove_nodes"), N(0)>>, <<W("sim_step")>>, <<W("sim_reset")>>,
          <<W("debug_init"), N(0), N(1)>>, <<W("debug_step")>>, <<W("debug_step"), N(2)>>,
          <<W("algo")>>, <<W("algo"), W("dijkstra")>>}
    \cup {<<W("algo"), W(a)>> : a \in AlgorithmNames}
    \cup {<<W("test"), N(n)>> : n \in 0 .. MaxSamples}

NextEval ==
    \E l \in Loops :
       \/ Quiet /\ \E t \in EvalInputs : Send(l, t)
       \/ Write(l)
       \/ CmdAddLine(l)
       \/ CmdRemoveNodes(l)
       \/ CmdResetSim(l)
       \/ CmdAlgorithm(l)
       \/ SimStepBegin(l)
       \/ SimStepAlgorithm(l)
       \/ SimStepMovements(l)
       \/ SimStepCount(l)
       \/ SimStepEnd(l)
       \/ CmdTest(l)
       \/ CmdDebug(l)
       \/ CmdDebugStep(l)

SpecEval == Init /\ [][NextEval]_vars

\* SpecConc: both loops receive lines at any time; scripts, exit, parameter
\* access and simulation steps.
ConcInputs ==
    {<<>>, <<W("frobnicate")>>, <<W("exit")>>, <<W("algo"), W("vivaldi")>>,
     <<W("sim_step")>>, <<W("sim_step"), N(MaxSteps)>>,
     <<W("get"), W("name")>>, <<W("get"), W("nosuchkey")>>,
     <<W("set"), W("name"), W("x")>>, <<W("set"), W("nosuchkey"), W("1")>>,
     <<W("run"), W("nofile")>>}
    \cup {<<W("run"), W(f)>> : f \in DOMAIN Files}

\* what loop l does by itself: everything but the arrival of an external line
ConcStep(l) ==
    \/ ReceiveDummy(l)
    \/ Write(l)
    \/ ExtAbort(l)
    \/ CmdIgnore(l)
    \/ CmdError(l)
    \/ CmdExit(l)
    \/ CmdGet(l)
    \/ CmdSet(l)
    \/ CmdAlgorithm(l)
    \/ SimStepBegin(l)
    \/ SimStepAlgorithm(l)
    \/ SimStepMovements(l)
    \/ SimStepCount(l)
    \/ SimStepEnd(l)
    \/ RunBegin(l)
    \/ RunNotFound(l)
    \/ RunRecursive(l)
    \/ RunEnd(l)

NextConc ==
    \E l \in Loops :
       \/ \E t \in ConcInputs : Send(l, t)
       \/ ConcStep(l)

SpecConc == Init /\ [][NextConc]_vars

\* SpecExit: SpecConc with each loop's thread scheduled fairly: a loop that can
\* take a step by itself eventually does.  No line has to arrive.
SpecExit == SpecConc /\ \A l \in Loops : WF_vars(ConcStep(l))

\* SpecFrame: every part of the state is moved away from its initial value by
\* lines typed into cmd_loop, one at a time, among them sim_reset and lines that
\* are blank, comments, unknown or short of arguments; ext_loop may receive
\* an exit.
BlankInputs == {<<>>, <<H("#line"), N(2)>>}

UnknownInputs == {<<W("frobnicate")>>, <<N(7)>>}

MissingArgumentInputs ==
    {<<W("debug_init"), N(0)>>, <<W("line"), W("two")>>, <<W("lattice4"), N(1)>>,
     <<W("remove_nodes"), W("x")>>, <<W("get")>>, <<W("set"), W("name")>>}

FrameInputs ==
    {<<W("line"), N(MaxNodes)>>, <<W("algo"), W("vivaldi")>>, <<W("sim_step")>>,
     <<W("test"), N(MaxSamples)>>, <<W("debug_init"), N(0), N(1)>>,
     <<W("progress"), W("true")>>, <<W("export"), W("out.json")>>, <<W("export")>>,
     <<W("sim_reset")>>}
    \cup BlankInputs \cup UnknownInputs \cup MissingArgumentInputs

NextFrame ==
    \E l \in Loops :
       \/ Quiet /\ l = "cmd" /\ \E t \in FrameInputs : Send(l, t)
       \/ Quiet /\ l = "ext" /\ Send(l, <<W("exit")>>)
       \/ ReceiveDummy(l)
       \/ ExtAbort(l)
       \/ Write(l)
       \/ CmdIgnore(l)
       \/ CmdError(l)
       \/ CmdExit(l)
       \/ CmdProgress(l)
       \/ CmdExportPath(l)
       \/ CmdAddLine(l)
       \/ CmdAlgorithm(l)
       \/ CmdResetSim(l)
       \/ SimStepBegin(l)
       \/ SimStepAlgorithm(l)
       \/ SimStepMovements(l)
       \/ SimStepCount(l)
       \/ SimStepEnd(l)
       \/ CmdTest(l)
       \/ CmdDebug(l)

SpecFrame == Init /\ [][NextFrame]_vars

\* ---------------------------------------------------------------- claims
\* this step is loop l's cmd_handler handling (all of) a command of kind cid
Handled(l, cid) == Is(l, cid) /\ (pc'[l] = "write" \/ script' # script)

SimStepPcs == {"SimStep", "SimStep.movements", "SimStep.count"}

\* a loop is about to invoke the active algorithm's step or route
UsesAlgorithm(l) ==
    \/ pc[l] = "SimStep" /\ step < Command(l).a /\ ~sim.abort_simulation
    \/ Is(l, "Test") /\ Command(l).a > 0 /\ sim.graph.node_count >= 2
    \/ Is(l, "DebugStep") /\ Command(l).a > 0 /\ sim.debug_path.active

\* C1: whenever sim_step, test or debug_step invokes the algorithm's step or
\* route, the last reset applied to the active algorithm used the graph's
\* current node_count.
C1_ResetBeforeUse ==
    \A l \in Loops : UsesAlgorithm(l) => sim.algorithm.size = sim.graph.node_count

\* C2: once an exit command has reached the other loop, a sim_step in progress
\* starts no further iteration: the loop stops at its next iteration boundary.
C2_ExitStopsSimStep ==
    [][\A l \in Loops : \A k \in Loops \ {l} :
          (pc[l] = "SimStep" /\ pc[k] = "lock" /\ Command(k).cid = "Exit")
              => pc'[l] # "SimStep.movements"]_vars

\* C3: an iteration of sim_step is the algorithm's step, then the movement
\* update, then the step counter and the loop variable each incremented by
\* one; the loop ends after exactly count iterations when the abort flag is
\* clear and after none when it is set, and nothing but the iterations
\* changes sim_steps.
C3_SimStepIterations ==
    [][\A l \in Loops :
          /\ (pc[l] = "SimStep" /\ pc'[l] = "SimStep.movements") =>
                /\ sim' = [sim EXCEPT !.algorithm = algorithm_step(sim.algorithm)]
                /\ step' = step
          /\ pc[l] = "SimStep.movements" =>
                /\ pc'[l] \in {"SimStep.movements", "SimStep.count"}
                /\ pc'[l] = "SimStep.count" =>
                      /\ sim' = [sim EXCEPT !.locations = movements_step(sim.locations)]
                      /\ step' = step
          /\ pc[l] = "SimStep.count" =>
                /\ pc'[l] \in {"SimStep.count", "SimStep"}
                /\ pc'[l] = "SimStep" =>
                      /\ sim' = [sim EXCEPT !.sim_steps = sim.sim_steps + 1]
                      /\ step' = step + 1
          /\ (pc[l] = "SimStep" /\ pc'[l] \notin SimStepPcs) =>
                /\ step = IF sim.abort_simulation THEN 0 ELSE Command(l).a
                /\ sim'.sim_steps = sim.sim_steps
          /\ (pc[l] \notin SimStepPcs /\ pc'[l] \in SimStepPcs) =>
                /\ pc'[l] = "SimStep"
                /\ step' = 0
                /\ sim' = sim]_vars

C3_Witness ==
    \E l \in Loops :
       /\ pc[l] = "SimStep"
       /\ Command(l).a = 2
       /\ step = 2
       /\ sim.algorithm.steps = 2
       /\ ~sim.abort_simulation

\* C4: a loop inside cmd_handler (a script included) or writing its result
\* holds the lock, and no other loop is inside cmd_handler at the same time.
InHandler(l) == pc[l] \in SimStepPcs \cup {"Run", "write"}

C4_OneHandlerUnderLock ==
    \A l \in Loops :
       InHandler(l) => (lock = l /\ \A k \in Loops \ {l} : ~InHandler(k))

C4_Witness ==
    \E l \in Loops : \E k \in Loops \ {l} :
       /\ pc[l] = "Run"
       /\ script.index >= 1
       /\ pc[k] = "lock"
       /\ Command(k).cid = "SimStep"

\* C5: algo with an unknown name changes neither the algorithm nor EvalStats
\* and reports the name; with a known name the active algorithm becomes a
\* fresh instance of that variant, reset to the graph's node_count.
C5_AlgorithmByName ==
    [][\A l \in Loops :
          (Handled(l, "Algorithm") /\ Command(l).a # <<>>) =>
              IF Command(l).a[1] \in AlgorithmNames
              THEN sim'.algorithm =
                      algorithm_reset(new_algorithm(Command(l).a[1]), sim'.graph.node_count)
              ELSE /\ sim'.algorithm = sim.algorithm
                   /\ sim'.test = sim.test
                   /\ out' = <<[msg |-> "Unknown algorithm", name |-> Command(l).a[1]]>>]_vars

C5_Witness ==
    \E l \in Loops :
       /\ pc[l] = "write"
       /\ Command(l).cid = "Algorithm"
       /\ Command(l).a = <<"dijkstra">>
       /\ sim.algorithm.steps > 0
       /\ sim.algorithm.size # sim.graph.node_count
       /\ sim.test.samples > 0

\* C6: a get or set with an unrecognised key leaves the abort flag as it was,
\* typed into a loop or as a line of a script.
C6_UnknownKeyNonFatal ==
    [][\A l \in Loops :
          ((Handled(l, "Get") \/ Handled(l, "Set")) /\ Command(l).a \notin RecognisedKeys)
              => sim'.abort_simulation = sim.abort_simulation]_vars

\* C7: the line a test command prints carries the requested sample count and
\* the arrivals of this run only: EvalStats holds exactly the samples of this
\* run, whatever ran before.
C7_TestStatsOfThisRun ==
    \A l \in Loops :
       (pc[l] = "write" /\ Command(l).cid = "Test") =>
           /\ Len(out) = 1
           /\ out[1].msg = "samples"
           /\ out[1].samples = Command(l).a
           /\ out[1].arrived = sim.test.arrived
           /\ sim.test.arrived <= sim.test.samples
           /\ sim.test.samples = IF sim.graph.node_count >= 2 THEN Command(l).a ELSE 0

C7_Witness ==
    \E l \in Loops :
       /\ pc[l] = "write"
       /\ Command(l).cid = "Test"
       /\ Command(l).a >= 1
       /\ sim.test.samples = Command(l).a
       /\ sim.test.arrived >= 1
       /\ sim.sim_steps > 0

\* C8: a test command leaves the graph, the active algorithm with its
\* per-node state, sim_steps and the debug session as they were.
C8_TestFrame ==
    [][\A l \in Loops :
          Handled(l, "Test") =>
              /\ sim'.graph = sim.graph
              /\ sim'.algorithm = sim.algorithm
              /\ sim'.sim_steps = sim.sim_steps
              /\ sim'.debug_path = sim.debug_path]_vars

C8_Witness ==
    \E l \in Loops :
       /\ pc[l] = "write"
       /\ Command(l).cid = "Test"
       /\ sim.test.samples >= 1
       /\ sim.algorithm.steps > 0
       /\ sim.sim_steps > 0
       /\ sim.debug_path.active

\* C9: debug_step n advances the session by n hops, by fewer only when it
\* returns an error, and leaves the algorithm, the graph, sim_steps and
\* EvalStats as they were.
C9_DebugStep ==
    [][\A l \in Loops :
          Handled(l, "DebugStep") =>
              /\ sim'.algorithm = sim.algorithm
              /\ sim'.graph = sim.graph
              /\ sim'.sim_steps = sim.sim_steps
              /\ sim'.test = sim.test
              /\ sim'.debug_path.from = sim.debug_path.from
              /\ sim'.debug_path.to = sim.debug_path.to
              /\ sim'.debug_path.active = sim.debug_path.active
              /\ LET n == IF sim.debug_path.active THEN Command(l).a ELSE 0
                     done == sim'.debug_path.hops - sim.debug_path.hops
                 IN IF res' = "Ok" THEN done = n ELSE (done >= 0 /\ done < Command(l).a)]_vars

C9_Witness ==
    \E l \in Loops :
       /\ pc[l] = "write"
       /\ Command(l).cid = "DebugStep"
       /\ Command(l).a = 2
       /\ res = "Ok"
       /\ sim.debug_path.active
       /\ sim.debug_path.hops = 2
       /\ sim.algorithm.steps > 0
       /\ sim.test.samples > 0

\* C10: after any sequence of commands every link joins two distinct ids of
\* the node set and the adjacency is symmetric.
GraphInvariant(g) ==
    \A k \in g.links :
       /\ k[1] \in Nodes(g)
       /\ k[2] \in Nodes(g)
       /\ k[1] # k[2]
       /\ <<k[2], k[1]>> \in g.links

C10_GraphInvariant == GraphInvariant(sim.graph)

\* C11: once a loop has handled an exit command, both loops terminate, whether
\* or not any further line arrives.
C11_ExitTerminatesLoops ==
    (\E l \in Loops : pc[l] = "write" /\ Command(l).cid = "Exit")
        ~> (\A k \in Loops : pc[k] = "done")

\* C12: a loop whose line was read after the abort flag became true does not
\* call cmd_handler on it: from the lock it can only leave its loop.
C12_NoCommandAfterAbort ==
    [][\A l \in Loops :
          (l \in after_abort /\ pc[l] = "lock" /\ pc'[l] # "lock") => pc'[l] = "done"]_vars

\* the line the Run handler of loop l is about to execute fails in cmd_handler
LineFails(l) ==
    /\ AtLine(l)
    /\ Command(l).cid \in {"Get", "Set"}
    /\ Command(l).a \notin RecognisedKeys

\* C13: a script line that makes cmd_handler return an error ends the script
\* there: the abort flag is set, the error is written with the script's path
\* and the line's index, nothing else of the state changes and run itself
\* returns Ok; a line that is only reported (unknown command, missing
\* arguments) changes no state and the script goes on with its next line.
C13_ScriptErrorStops ==
    [][\A l \in Loops :
          /\ (LineFails(l) /\ script' # script) =>
                /\ script' = NoScript
                /\ pc'[l] = "write"
                /\ res' = "Ok"
                /\ sim' = [sim EXCEPT !.abort_simulation = TRUE]
                /\ out' = Append(out, [msg |-> "Error in", path |-> script.path,
                                       index |-> script.index])
                /\ Files[script.path][script.index + 1] = Head(script.lines)
          /\ (AtLine(l) /\ Command(l).cid = "Error" /\ script' # script) =>
                /\ script' = [script EXCEPT !.lines = Tail(@), !.index = @ + 1]
                /\ pc'[l] = "Run"
                /\ sim' = sim
                /\ out' = Append(out, Msg(Command(l).a))]_vars

C13_Witness ==
    \E l \in Loops :
       /\ pc[l] = "write"
       /\ Command(l).cid = "Run"
       /\ sim.abort_simulation
       /\ sim.algorithm.name = "random"
       /\ out = <<Msg("Unknown Command"), Msg("Missing Arguments"),
                  [msg |-> "Error in", path |-> "e", index |-> 2]>>

\* C14: a run command that is a line of a script opens no script: it is only
\* reported as "Recursive call not allowed", changes no state, and the script
\* goes on with its next line; while a script is executed no other script is
\* started, so cmd_handler is never more than two calls deep.
C14_NoNestedRun ==
    [][/\ \A l \in Loops :
             (AtLine(l) /\ Command(l).cid = "Run" /\ script' # script) =>
                 /\ script' = [script EXCEPT !.lines = Tail(@), !.index = @ + 1]
                 /\ pc'[l] = "Run"
                 /\ sim' = sim
                 /\ out' = Append(out, [msg |-> "Recursive call not allowed",
                                        path |-> Command(l).a])
       /\ (script.active /\ script'.active) =>
             /\ script'.path = script.path
             /\ script'.index \in {script.index, script.index + 1}]_vars

C14_Witness ==
    \E l \in Loops :
       /\ pc[l] = "Run"
       /\ script.path = "b"
       /\ script.index = 2
       /\ script.lines = << <<W("sim_step"), N(1)>> >>
       /\ out = <<Msg("Unknown Command"),
                  [msg |-> "Recursive call not allowed", path |-> "b"]>>

\* C15: debug_init from to starts a session only when from and to are both
\* smaller than node_count; otherwise it reports "Invalid path" and the debug
\* session stays as it was.
C15_DebugInitEndpoints ==
    [][\A l \in Loops :
          Handled(l, "Debug") =>
              LET from == Command(l).a
                  to == Command(l).b
              IN IF from < sim.graph.node_count /\ to < sim.graph.node_count
                 THEN sim'.debug_path = debug_path_init(from, to)
                 ELSE /\ sim'.debug_path = sim.debug_path
                      /\ out' = <<[msg |-> "Invalid path", from |-> from, to |-> to]>>]_vars

\* C16: whenever debug_step advances the debug session, the session's source
\* and destination ids are smaller than the graph's current node_count.
C16_NoStaleDebugSession ==
    [][\A l \in Loops :
          (Handled(l, "DebugStep") /\ sim'.debug_path.hops > sim.debug_path.hops) =>
              /\ sim.debug_path.from < sim.graph.node_count
              /\ sim.debug_path.to < sim.graph.node_count]_vars

\* C17: sim_reset sets sim_steps to 0, clears EvalStats and resets the active
\* algorithm's per-node state to the graph's node_count; the graph, the
\* algorithm variant, the abort flag, the progress flag, the export path and
\* everything else are unchanged.
C17_SimResetFrame ==
    [][\A l \in Loops :
          Handled(l, "ResetSim") =>
              /\ sim'.sim_steps = 0
              /\ sim'.test = test_clear(sim.test)
              /\ sim'.algorithm = algorithm_reset(sim.algorithm, sim.graph.node_count)
              /\ sim'.algorithm.name = sim.algorithm.name
              /\ sim'.graph = sim.graph
              /\ sim'.abort_simulation = sim.abort_simulation
              /\ sim'.show_progress = sim.show_progress
              /\ sim'.export_path = sim.export_path
              /\ sim'.debug_path = sim.debug_path
              /\ sim'.locations = sim.locations]_vars

C17_Witness ==
    /\ pc["cmd"] = "write"
    /\ Command("cmd").cid = "ResetSim"
    /\ sim.sim_steps = 0
    /\ sim.locations.moves > 0
    /\ sim.algorithm = [name |-> "vivaldi", size |-> MaxNodes, steps |-> 0]
    /\ sim.test.samples = 0
    /\ sim.graph.node_count = MaxNodes
    /\ sim.abort_simulation
    /\ sim.show_progress
    /\ sim.export_path = "out.json"
    /\ sim.debug_path.active

\* C18: a line that is empty, a comment, an unknown command or a known command
\* short of its required arguments changes nothing of the simulation state and
\* returns Ok; the unknown command is reported as "Unknown Command", the
\* missing arguments as "Missing Arguments", the other two write nothing.
C18_NoOpInputs ==
    [][\A l \in Loops :
          (AtCall(l) /\ pc'[l] # pc[l]
                /\ Line(l) \in BlankInputs \cup UnknownInputs \cup MissingArgumentInputs) =>
              /\ sim' = sim
              /\ pc'[l] = "write"
              /\ res' = "Ok"
              /\ out' = IF Line(l) \in BlankInputs THEN <<>>
                        ELSE IF Line(l) \in UnknownInputs THEN <<Msg("Unknown Command")>>
                        ELSE <<Msg("Missing Arguments")>>]_vars

C18_Witness ==
    /\ pc["cmd"] = "write"
    /\ input["cmd"] \in MissingArgumentInputs
    /\ out = <<Msg("Missing Arguments")>>
    /\ sim.graph.node_count = MaxNodes
    /\ sim.algorithm.name = "vivaldi"
    /\ sim.algorithm.steps > 0
    /\ sim.sim_steps > 0
    /\ sim.test.samples > 0
    /\ sim.debug_path.active
    /\ sim.abort_simulation
    /\ sim.show_progress
    /\ sim.export_path = "out.json"

====
